---- MODULE Spec2Model ----
(***************************************************************************)
(* Model of the Blender "Auto-track" add-on (src/__init__.py):             *)
(*   - log_msg, the capped status log;                                     *)
(*   - CLIP_OT_autotrack_autosolve, the Solve-Prune modal operator;        *)
(*   - CLIP_OT_autotrack_autotrack, the Tracking Cycle modal operator.     *)
(* Floats are kept as integers in tenths (error 0.3 is 3, weight 1.0 is    *)
(* 10).  The engine operators of bpy.ops.clip are opaque: what they        *)
(* return is drawn nondeterministically at each call.                      *)
(***************************************************************************)
EXTENDS Integers, Sequences, FiniteSets, TLC

VARIABLES
    tracks,                 \* clip.tracking.tracks, in dataset order
    autotrack_log,          \* scene.autotrack_log
    autotrack_log_index,    \* scene.autotrack_log_index
    scene,                  \* the scene properties the operators read
    active_object,          \* clip.tracking.objects.active is not None
    reconstruction,         \* active_obj.reconstruction
    timer,                  \* self._timer is registered with the window manager
    op_status,              \* what the running operator last returned to the host
    state,                  \* autosolve._state
    iteration,              \* autosolve._iteration
    state_from_prune,       \* autosolve._state_from_prune
    best_error,             \* autosolve._best_error
    tracks_disabled_count,  \* autosolve._tracks_disabled_count
    candidates_to_prune,    \* autosolve._candidates_to_prune (track ids)
    history,                \* autosolve._history (track id -> weight)
    frame_current,          \* scene.frame_current
    clip_size,              \* clip.size
    frame_redetect,         \* autotrack._frame_redetect
    job,                    \* the asynchronous tracking job of the clip editor
    next_id,                \* identity the next detected track gets
    event,                  \* observer: the last event the autotrack operator handled
    outcome,                \* observer: the branch the last handler took
    pre_tracks,             \* observer: tracks when the last handler started
    pre_log,                \* observer: the log when the last handler started
    pre_prune,              \* observer: tracks just before the last prune step
    last_solve,             \* observer: the last solve the SOLVING branch looked at
    solve_calls,            \* observer: number of bpy.ops.clip.solve_camera() calls
    delete_calls,           \* observer: number of bpy.ops.clip.delete_track() calls
    run,                    \* observer: ids of the tracks of weight 0 at invoke and
                            \* of the tracks pruned in committed iterations
    cycle,                  \* observer: what the last execute() of autotrack computed
    panel_calls             \* observer: number of Clear Log and Filter calls so far

vars == <<tracks, autotrack_log, autotrack_log_index, scene, active_object,
          reconstruction, timer, op_status, state, iteration, state_from_prune,
          best_error, tracks_disabled_count, candidates_to_prune, history,
          frame_current, clip_size, frame_redetect, job, next_id, event,
          outcome, pre_tracks, pre_log, pre_prune,
          last_solve, solve_calls, delete_calls, run, cycle, panel_calls>>

solveVars == <<state, iteration, state_from_prune, best_error,
               tracks_disabled_count, candidates_to_prune, history,
               reconstruction, pre_prune, last_solve, solve_calls, run>>

trackVars == <<frame_current, clip_size, frame_redetect, job, next_id, event, cycle>>

----------------------------------------------------------------------------
(* Bounds of the model *)

\* Largest number of tracks a dataset holds at invoke.
MaxTracks == 2

\* Largest number of tracks one Tracking Cycle run sees: those in the dataset at
\* invoke and those detection creates.
MaxIds == 2

\* Largest number of execute() calls of one Tracking Cycle run.
MaxCycles == 2

\* Clear Log and Filter calls a run is let see
MaxPanelCalls == 1

\* autosolve._max_iterations.  The class attribute is 20 (src/__init__.py:253);
\* the model runs the same loop with a cap small enough for the cap, and the
\* iteration that reaches it, to be explored.
max_iterations == 2

----------------------------------------------------------------------------
(* Program constants *)

\* autosolve._target_error = 0.3, in tenths
target_error == 3

\* autosolve._best_error = 9999.9, in tenths
best_error_default == 99999

\* the cap of log_msg
LOG_CAP == 50

----------------------------------------------------------------------------
(* Sequence helpers *)

Range(s) == {s[i] : i \in DOMAIN s}

RECURSIVE SelectWhere(_, _)
\* the elements of s at the positions in keep, in order
SelectWhere(s, keep) ==
    IF s = <<>> THEN <<>>
    ELSE LET n == Len(s)
             rest == SelectWhere(SubSeq(s, 1, n - 1), keep)
         IN IF n \in keep THEN Append(rest, s[n]) ELSE rest

Ids(ts) == {ts[i].id : i \in DOMAIN ts}

IndexOf(ts, id) == CHOOSE i \in DOMAIN ts : ts[i].id = id

NoMarkers == [f \in {} |-> 0]

----------------------------------------------------------------------------
(* LOGGING SYSTEM *)

LogItem(message, icon) == [message |-> message, icon |-> icon]

log_msg_evict_newest(l, message, icon) ==
    LET added == Append(l, LogItem(message, icon))
    IN IF Len(added) > LOG_CAP THEN SubSeq(added, 1, LOG_CAP) ELSE added

\* log_msg: add the item, then remove(0) when the log holds more than 50
log_msg(l, message, icon) ==
    LET added == Append(l, LogItem(message, icon))
    IN IF Len(added) > LOG_CAP THEN Tail(added) ELSE added

\* scene.autotrack_log_index = len(scene.autotrack_log) - 1
log_index(l) == Len(l) - 1

----------------------------------------------------------------------------
(* Engine operators shared by both controllers *)

\* bpy.ops.clip.select_all(action='DESELECT')
select_all_deselect(ts) == [i \in DOMAIN ts |-> [ts[i] EXCEPT !.select = FALSE]]

\* bpy.ops.clip.delete_track(): removes the selected tracks
delete_track(ts) == SelectWhere(ts, {i \in DOMAIN ts : ~ts[i].select})

----------------------------------------------------------------------------
(* OPERATOR: AUTO SOLVE & CLEAN (MODAL) *)

\* reconstruction.average_error values a solve can report, in tenths
ErrValues == {3, 4, 5, 6}

\* what a solve reports for one track: has_bundle and average_error (tenths)
TrackResults == {[has_bundle |-> FALSE, average_error |-> 0],
                 [has_bundle |-> TRUE, average_error |-> 1],
                 [has_bundle |-> TRUE, average_error |-> 2]}

\* the tracks a solve uses: those with weight > 0
SolvedIdx(ts) == {i \in DOMAIN ts : ts[i].weight > 0}

\* bpy.ops.clip.solve_camera(): a failed solve leaves no result; a valid one
\* sets has_bundle and average_error of every track it used (res) and leaves
\* the tracks of weight 0 without a bundle.  Weights are never written.
solve_camera(ts, valid, res) ==
    IF ~valid THEN ts
    ELSE [i \in DOMAIN ts |->
            IF i \in DOMAIN res
            THEN [ts[i] EXCEPT !.has_bundle = res[i].has_bundle,
                               !.average_error = res[i].average_error]
            ELSE [ts[i] EXCEPT !.has_bundle = FALSE, !.average_error = 0]]

RECURSIVE SortByErrorDesc_ties_reversed(_)
SortByErrorDesc_ties_reversed(s) ==
    IF s = <<>> THEN <<>>
    ELSE LET n == Len(s)
             front == SortByErrorDesc_ties_reversed(SubSeq(s, 1, n - 1))
             x == s[n]
             k == Cardinality({i \in DOMAIN front :
                                  front[i].average_error > x.average_error})
         IN SubSeq(front, 1, k) \o <<x>> \o SubSeq(front, k + 1, Len(front))

RECURSIVE SortByErrorDesc(_)
\* list.sort(key=average_error, reverse=True): stable, equal keys keep their order
SortByErrorDesc(s) ==
    IF s = <<>> THEN <<>>
    ELSE LET n == Len(s)
             front == SortByErrorDesc(SubSeq(s, 1, n - 1))
             x == s[n]
             \* x goes after every element whose key is >= its own
             k == Cardinality({i \in DOMAIN front :
                                  front[i].average_error >= x.average_error})
         IN SubSeq(front, 1, k) \o <<x>> \o SubSeq(front, k + 1, Len(front))

\* 1. Failed: weight > 0, visible, no bundle (only when delete_failed)
failed_tracks(ts, delete_failed) ==
    IF delete_failed
    THEN SelectWhere(ts, {i \in DOMAIN ts :
             ts[i].weight > 0 /\ ~ts[i].hide /\ ~ts[i].has_bundle})
    ELSE <<>>

\* 2. Worst: valid_tracks sorted by average_error descending, first delete_count
worst_n(ts, delete_count) ==
    LET valid_tracks == SelectWhere(ts, {i \in DOMAIN ts :
             ts[i].weight > 0 /\ ~ts[i].hide /\ ts[i].has_bundle})
        sorted == SortByErrorDesc(valid_tracks)
    IN SubSeq(sorted, 1, IF delete_count < Len(sorted) THEN delete_count
                         ELSE Len(sorted))

\* self._candidates_to_prune of one PRUNING step, as track ids in list order
candidates(ts, delete_failed, delete_count) ==
    LET failed == failed_tracks(ts, delete_failed)
        worst == worst_n(ts, delete_count)
        fresh == SelectWhere(worst, {i \in DOMAIN worst :
                     worst[i].id \notin Ids(failed)})
        all == failed \o fresh
    IN [i \in DOMAIN all |-> all[i].id]

\* self._history = {track: track.weight for track in self._candidates_to_prune}
snapshot(ts, cands) == [id \in Range(cands) |-> ts[IndexOf(ts, id)].weight]

\* for track in self._candidates_to_prune: track.weight = 0.0
prune(ts, cands) ==
    [i \in DOMAIN ts |->
        IF ts[i].id \in Range(cands) THEN [ts[i] EXCEPT !.weight = 0] ELSE ts[i]]

restore_full_weight(ts, hist) ==
    [i \in DOMAIN ts |->
        IF ts[i].id \in DOMAIN hist THEN [ts[i] EXCEPT !.weight = 10] ELSE ts[i]]

\* for track, old_weight in self._history.items(): track.weight = old_weight
restore(ts, hist) ==
    [i \in DOMAIN ts |->
        IF ts[i].id \in DOMAIN hist THEN [ts[i] EXCEPT !.weight = hist[ts[i].id]]
        ELSE ts[i]]

finish_always_deleting(ts, l, count) ==
    LET deselected == select_all_deselect(ts)
        selected == [i \in DOMAIN deselected |->
                        IF deselected[i].weight = 0
                        THEN [deselected[i] EXCEPT !.select = TRUE]
                        ELSE deselected[i]]
    IN [tracks |-> delete_track(selected),
        log |-> log_msg(l, <<"Finished. Deleted tracks.", count>>, "TRASH"),
        deletes |-> 1]

\* finish(): delete the tracks of weight 0 when some were counted, log the
\* summary; the result is the tracks, the log and the number of delete calls
finish(ts, l, count) ==
    IF count > 0
    THEN LET deselected == select_all_deselect(ts)
             selected == [i \in DOMAIN deselected |->
                             IF deselected[i].weight = 0
                             THEN [deselected[i] EXCEPT !.select = TRUE]
                             ELSE deselected[i]]
         IN [tracks |-> delete_track(selected),
             log |-> log_msg(l, <<"Finished. Deleted tracks.", count>>, "TRASH"),
             deletes |-> 1]
    ELSE [tracks |-> ts,
          log |-> log_msg(l, <<"Finished. No tracks deleted.">>, "CHECKMARK"),
          deletes |-> 0]

\* the Evaluating part of the SOLVING branch (lines 286-303): what the solve of
\* error new_error leads to
evaluate_no_revert(new_error) ==
    IF iteration = 0 THEN "first"
    ELSE IF state_from_prune /\ new_error < best_error THEN "commit" ELSE "none"

evaluate_accept_equal(new_error) ==
    IF iteration = 0 THEN "first"
    ELSE IF state_from_prune
         THEN IF new_error <= best_error THEN "commit" ELSE "revert"
         ELSE "none"

evaluate(new_error) ==
    IF iteration = 0 THEN "first"
    ELSE IF state_from_prune
         THEN IF new_error < best_error THEN "commit" ELSE "revert"
         ELSE "none"

\* line 301, bpy.ops.clip.solve_camera() over the restored weights: these are
\* the weights of the last committed solve, whose result it reports again
\* (per track: what pre_prune holds; for the reconstruction: best_error),
\* unless it fails
solve_again(ts, valid) ==
    IF ~valid THEN ts
    ELSE [i \in DOMAIN ts |->
            LET j == IndexOf(pre_prune, ts[i].id)
            IN [ts[i] EXCEPT !.has_bundle = pre_prune[j].has_bundle,
                             !.average_error = pre_prune[j].average_error]]

\* the failed solve of lines 279-282, with a rollback the code does not make
solve_failed_reverting(ts, l) ==
    [tracks |-> restore(ts, history),
     log |-> log_msg(l, <<"Solve Failed (Not enough tracks?)">>, "ERROR")]

\* lines 279-282: the reconstruction is not valid: log one error, then cancel()
solve_failed(ts, l) ==
    [tracks |-> ts,
     log |-> log_msg(l, <<"Solve Failed (Not enough tracks?)">>, "ERROR")]

target_reached_strict(best) == best < target_error

\* line 307: if self._best_error <= self._target_error
target_reached(best) == best <= target_error

\* CLIP_OT_autotrack_clear_log.execute, line 56: scene.autotrack_log.clear()
clear_log(l) == <<>>

\* bpy.ops.clip.filter_tracks(track_threshold=...): the engine leaves selected
\* the tracks it finds above the threshold, and only those
filter_tracks(ts, high) ==
    [i \in DOMAIN ts |-> [ts[i] EXCEPT !.select = ts[i].id \in high]]

\* line 424: count = sum(1 for t in tracks if t.select)
selected_count(ts) == Cardinality({i \in DOMAIN ts : ts[i].select})

\* the record of an event whose handler ran no cycle, for the observers
EventSeen(type) ==
    [type |-> type, frame |-> frame_current, redetect |-> frame_redetect,
     executed |-> FALSE, raised |-> FALSE]

\* CLIP_OT_autotrack_clear_log.execute(): lines 55-57; the panel stays usable
\* before, during and after a run of either operator, and
\* autotrack_log_index is left as it was
ClearLog ==
    /\ panel_calls < MaxPanelCalls
    /\ panel_calls' = panel_calls + 1
    /\ pre_tracks' = tracks
    /\ pre_log' = autotrack_log
    /\ autotrack_log' = clear_log(autotrack_log)
    /\ outcome' = "clear_log"
    /\ event' = EventSeen("CLEAR_LOG")
    /\ UNCHANGED <<tracks, autotrack_log_index, scene, active_object, timer,
                   op_status, solveVars, delete_calls, frame_current, clip_size,
                   frame_redetect, job, next_id, cycle>>

\* CLIP_OT_autotrack_filter.execute(): lines 415-426
Filter ==
    /\ panel_calls < MaxPanelCalls
    /\ panel_calls' = panel_calls + 1
    /\ pre_tracks' = tracks
    /\ pre_log' = autotrack_log
    /\ \E high \in SUBSET Ids(tracks) : tracks' = filter_tracks(tracks, high)
    /\ autotrack_log' = log_msg(autotrack_log,
                                <<"Selected high-error tracks", selected_count(tracks')>>,
                                "FILTER")
    /\ autotrack_log_index' = log_index(autotrack_log')
    /\ outcome' = "filter"
    /\ event' = EventSeen("FILTER")
    /\ UNCHANGED <<scene, active_object, timer, op_status, solveVars,
                   delete_calls, frame_current, clip_size, frame_redetect, job,
                   next_id, cycle>>

\* context.area of a handler call: "clip" is a clip editor whose active space
\* holds the clip, "noclip" an area whose active space holds no clip, "nospace"
\* an area without an active space, "none" no area at all
Areas == {"clip", "noclip", "nospace", "none"}

\* context.area.spaces.active.clip (lines 79, 266, 359) gives the clip
has_clip(area) == area = "clip"

\* context.area.spaces.active.clip (line 359) can be read: it raises when the
\* area or its active space is None
clip_readable(area) == area \in {"clip", "noclip"}

\* cancel() of the tracker: lines 234-236, the reset of frames_limit, which the
\* test of line 234 skips unless the context has an area whose active space
\* holds a clip
reset_frames_limit(ts, area) ==
    IF has_clip(area) THEN [i \in DOMAIN ts |-> [ts[i] EXCEPT !.frames_limit = 0]]
    ELSE ts

\* cancel() of either operator ends with context.area.tag_redraw() (lines 237
\* and 398), which raises when the context has no area; otherwise the caller
\* goes on to its return
cancel_status(area, returned) == IF area = "none" THEN "RAISED" ELSE returned

\* modal() of the solver, lines 266-267: without a clip in the context the
\* handler raises before it looks at the event; nothing is written and the
\* timer stays registered
AutosolveModalRaises ==
    /\ op_status' = "RAISED"
    /\ outcome' = "no_area"
    /\ UNCHANGED <<tracks, autotrack_log, autotrack_log_index, scene, active_object,
                   panel_calls, timer, solveVars, delete_calls, trackVars>>

\* invoke(): lines 357-375; execute() (line 262) is the same call.  The
\* operator has no poll(), so the context it is called in may have no area
AutosolveInvoke ==
    /\ op_status = "IDLE"
    /\ pre_tracks' = tracks
    /\ pre_log' = autotrack_log
    /\ \E area \in Areas :
       IF ~clip_readable(area)
       THEN \* line 359 raises
            /\ op_status' = "RAISED"
            /\ outcome' = "no_area"
            /\ UNCHANGED <<autotrack_log, autotrack_log_index, iteration,
                           tracks_disabled_count, state, state_from_prune, timer>>
       ELSE IF ~has_clip(area) \/ ~active_object
       THEN \* line 360: if not clip or not clip.tracking.objects.active
            /\ op_status' = "CANCELLED"
            /\ outcome' = "no_active_object"
            /\ UNCHANGED <<autotrack_log, autotrack_log_index, iteration,
                           tracks_disabled_count, state, state_from_prune, timer>>
       ELSE /\ autotrack_log' =
                   log_msg(autotrack_log, <<"--- Starting Auto Solve ---">>, "TRIA_RIGHT")
            /\ autotrack_log_index' = log_index(autotrack_log')
            /\ iteration' = 0
            /\ tracks_disabled_count' = 0
            /\ state' = "SOLVING"
            /\ state_from_prune' = FALSE
            /\ timer' = TRUE
            /\ op_status' = "RUNNING"
            /\ outcome' = "invoke"
    /\ UNCHANGED <<tracks, scene, active_object, panel_calls, reconstruction, best_error,
                   candidates_to_prune, history, pre_prune, last_solve,
                   solve_calls, delete_calls, run, trackVars>>

\* modal(), event.type == 'ESC': lines 269-272, then cancel() lines 395-398
AutosolveEsc ==
    /\ op_status = "RUNNING"
    /\ pre_tracks' = tracks
    /\ pre_log' = autotrack_log
    /\ \E area \in Areas :
         IF ~has_clip(area) THEN AutosolveModalRaises
         ELSE
             /\ autotrack_log' =
                    log_msg(autotrack_log, <<"Auto Solve Cancelled by User">>, "CANCEL")
             /\ autotrack_log_index' = log_index(autotrack_log')
             /\ timer' = FALSE
             /\ op_status' = "CANCELLED"
             /\ outcome' = "esc"
             /\ UNCHANGED <<tracks, scene, active_object, panel_calls, solveVars, delete_calls, trackVars>>

\* cancel(), lines 395-398, called by the host when it ends the running modal
\* operator (window closed, file loaded, quit): the timer is removed and
\* nothing is logged
AutosolveCancel ==
    /\ op_status = "RUNNING"
    /\ pre_tracks' = tracks
    /\ pre_log' = autotrack_log
    /\ timer' = FALSE
    /\ \E area \in Areas : op_status' = cancel_status(area, "ENDED")
    /\ outcome' = "cancel"
    /\ UNCHANGED <<tracks, autotrack_log, autotrack_log_index, scene, active_object,
                   panel_calls, solveVars, delete_calls, trackVars>>

\* modal(), an event that is neither ESC nor TIMER (mouse, keyboard): lines
\* 264-267 and 355, return {'PASS_THROUGH'}
AutosolveOtherEvent ==
    /\ op_status = "RUNNING"
    /\ pre_tracks' = tracks
    /\ pre_log' = autotrack_log
    /\ \E area \in Areas :
         IF ~has_clip(area) THEN AutosolveModalRaises
         ELSE /\ outcome' = "pass_through"
              /\ UNCHANGED <<tracks, autotrack_log, autotrack_log_index, scene,
                             active_object, panel_calls, timer, op_status,
                             solveVars, delete_calls, trackVars>>

\* modal(), event.type == 'TIMER', STATE: SOLVING: lines 276-312
AutosolveSolving ==
    /\ op_status = "RUNNING"
    /\ state = "SOLVING"
    /\ pre_tracks' = tracks
    /\ pre_log' = autotrack_log
    /\ \E area \in Areas :
         IF ~has_clip(area) THEN AutosolveModalRaises
         ELSE
             /\ UNCHANGED <<scene, active_object, panel_calls, iteration, candidates_to_prune, history,
                            pre_prune, trackVars>>
             /\ \E valid \in BOOLEAN :
                  IF ~valid
                  THEN LET failed == solve_failed(solve_camera(tracks, FALSE, <<>>), autotrack_log)
                       IN /\ tracks' = failed.tracks
                          /\ reconstruction' = [reconstruction EXCEPT !.is_valid = FALSE]
                          /\ autotrack_log' = failed.log
                          /\ autotrack_log_index' = log_index(autotrack_log')
                          /\ timer' = FALSE
                          /\ op_status' = "CANCELLED"
                          /\ outcome' = "invalid"
                          /\ last_solve' = [is_valid |-> FALSE, new_error |-> 0,
                                            best_before |-> best_error,
                                            from_prune |-> state_from_prune]
                          /\ solve_calls' = solve_calls + 1
                          /\ UNCHANGED <<state, state_from_prune, best_error,
                                         tracks_disabled_count, delete_calls, run>>
                  ELSE \E new_error \in ErrValues, res \in [SolvedIdx(tracks) -> TrackResults] :
                    LET solved == solve_camera(tracks, TRUE, res)
                        kind == evaluate(new_error)
                        seen == [is_valid |-> TRUE, new_error |-> new_error,
                                 best_before |-> best_error, from_prune |-> state_from_prune]
                    IN IF kind = "revert"
                       THEN \E valid2 \in BOOLEAN :
                              LET log1 == log_msg(autotrack_log,
                                              <<"Worse. Reverting.", iteration, new_error>>, "X")
                                  restored == restore(solved, history)
                                  resolved == solve_again(restored, valid2)
                                  done == finish(resolved, log1, tracks_disabled_count)
                              IN /\ tracks' = done.tracks
                                 /\ reconstruction' =
                                       IF valid2
                                       THEN [is_valid |-> TRUE, average_error |-> best_error]
                                       ELSE [is_valid |-> FALSE, average_error |-> new_error]
                                 /\ autotrack_log' = done.log
                                 /\ autotrack_log_index' = log_index(autotrack_log')
                                 /\ timer' = FALSE
                                 /\ op_status' = "FINISHED"
                                 /\ outcome' = "revert"
                                 /\ last_solve' = seen
                                 /\ solve_calls' = solve_calls + 2
                                 /\ delete_calls' = delete_calls + done.deletes
                                 /\ UNCHANGED <<state, state_from_prune, best_error,
                                                tracks_disabled_count, run>>
                       ELSE LET best1 == IF kind \in {"first", "commit"} THEN new_error
                                         ELSE best_error
                                count1 == IF kind = "commit"
                                          THEN tracks_disabled_count + Len(candidates_to_prune)
                                          ELSE tracks_disabled_count
                                log1 == IF kind = "first"
                                        THEN log_msg(autotrack_log,
                                                     <<"Initial Error", new_error>>, "INFO")
                                        ELSE IF kind = "commit"
                                        THEN log_msg(autotrack_log,
                                                     <<"Iter", iteration, Len(candidates_to_prune),
                                                       best_error, new_error>>, "DOT")
                                        ELSE autotrack_log
                                reached == target_reached(best1)
                                log2 == log_msg(log1, <<"Target error reached.", target_error>>,
                                                "CHECKMARK")
                                done == finish(solved, log2, count1)
                            IN /\ reconstruction' =
                                     [is_valid |-> TRUE, average_error |-> new_error]
                               /\ best_error' = best1
                               /\ tracks_disabled_count' = count1
                               /\ run' = IF kind = "commit"
                                         THEN [run EXCEPT !.committed =
                                                  @ \cup Range(candidates_to_prune)]
                                         ELSE run
                               /\ state' = IF kind = "none" THEN state ELSE "PRUNING"
                               /\ state_from_prune' = FALSE
                               /\ solve_calls' = solve_calls + 1
                               /\ last_solve' = seen
                               /\ IF reached
                                  THEN /\ tracks' = done.tracks
                                       /\ autotrack_log' = done.log
                                       /\ timer' = FALSE
                                       /\ op_status' = "FINISHED"
                                       /\ outcome' = IF kind = "first" THEN "first_target"
                                                     ELSE "commit_target"
                                       /\ delete_calls' = delete_calls + done.deletes
                                  ELSE /\ tracks' = solved
                                       /\ autotrack_log' = log1
                                       /\ outcome' = kind
                                       /\ UNCHANGED <<timer, op_status, delete_calls>>
                               \* line 38: the index is written by log_msg only
                               /\ autotrack_log_index' = IF kind = "none" /\ ~reached
                                                         THEN autotrack_log_index
                                                         ELSE log_index(autotrack_log')

\* line 317: if self._iteration > self._max_iterations
over_cap(it) == it > max_iterations

\* modal(), event.type == 'TIMER', STATE: PRUNING: lines 315-353
AutosolvePruning ==
    /\ op_status = "RUNNING"
    /\ state = "PRUNING"
    /\ pre_tracks' = tracks
    /\ pre_log' = autotrack_log
    /\ \E area \in Areas :
         IF ~has_clip(area) THEN AutosolveModalRaises
         ELSE
             /\ iteration' = iteration + 1
             /\ UNCHANGED <<scene, active_object, panel_calls, reconstruction, best_error,
                            tracks_disabled_count, last_solve, solve_calls, run, trackVars>>
             /\ IF over_cap(iteration')
                THEN LET done == finish(tracks, autotrack_log, tracks_disabled_count)
                     IN /\ tracks' = done.tracks
                        /\ autotrack_log' = done.log
                        /\ autotrack_log_index' = log_index(autotrack_log')
                        /\ timer' = FALSE
                        /\ op_status' = "FINISHED"
                        /\ outcome' = "cap"
                        /\ delete_calls' = delete_calls + done.deletes
                        /\ UNCHANGED <<state, state_from_prune, candidates_to_prune,
                                       history, pre_prune>>
                ELSE LET cands == candidates(tracks, scene.autotrack_solve_delete_failed,
                                             scene.autotrack_solve_delete_count)
                     IN /\ candidates_to_prune' = cands
                        /\ IF cands = <<>>
                           THEN LET log1 == log_msg(autotrack_log,
                                                <<"No more tracks to prune.">>, "CHECKMARK")
                                    done == finish(tracks, log1, tracks_disabled_count)
                                IN /\ tracks' = done.tracks
                                   /\ autotrack_log' = done.log
                                   /\ autotrack_log_index' = log_index(autotrack_log')
                                   /\ timer' = FALSE
                                   /\ op_status' = "FINISHED"
                                   /\ outcome' = "no_candidates"
                                   /\ delete_calls' = delete_calls + done.deletes
                                   /\ UNCHANGED <<state, state_from_prune, history, pre_prune>>
                           ELSE /\ history' = snapshot(tracks, cands)
                                /\ tracks' = prune(tracks, cands)
                                /\ pre_prune' = tracks
                                /\ state' = "SOLVING"
                                /\ state_from_prune' = TRUE
                                /\ outcome' = "pruned"
                                /\ UNCHANGED <<autotrack_log, autotrack_log_index, timer,
                                               op_status, delete_calls>>

----------------------------------------------------------------------------
(* The Solve-Prune specification *)

\* a track of the dataset as the solve operator finds it
SolveTrack(id, weight, hide) ==
    [id |-> id, hide |-> hide, lock |-> FALSE, select |-> FALSE,
     weight |-> weight, has_bundle |-> FALSE, average_error |-> 0,
     frames_limit |-> 0, markers |-> NoMarkers]

\* weight and hide of the tracks a run can start from
SolveTrackKinds == {<<10, FALSE>>, <<5, FALSE>>, <<0, FALSE>>, <<10, TRUE>>}

\* the log an earlier run left behind: n entries, oldest first
OldLog(n) == [i \in 1..n |-> LogItem(<<"old", i>>, "INFO")]

InitSolve ==
    /\ \E n \in 0..MaxTracks : \E kinds \in [1..n -> SolveTrackKinds] :
          tracks = [i \in 1..n |-> SolveTrack(i, kinds[i][1], kinds[i][2])]
    /\ autotrack_log = OldLog(LOG_CAP - 2)
    /\ autotrack_log_index = 0
    /\ \E failed \in BOOLEAN, count \in 1..2 :
          scene = [autotrack_rate |-> 30, autotrack_filter_mintime |-> 15,
                   autotrack_detect_distance |-> 60, frame_end |-> 250,
                   autotrack_solve_delete_failed |-> failed,
                   autotrack_solve_delete_count |-> count]
    /\ active_object \in BOOLEAN
    /\ reconstruction = [is_valid |-> FALSE, average_error |-> 0]
    /\ timer = FALSE
    /\ op_status = "IDLE"
    /\ state = "IDLE"
    /\ iteration = 0
    /\ state_from_prune = FALSE
    /\ best_error = best_error_default
    /\ tracks_disabled_count = 0
    /\ candidates_to_prune = <<>>
    /\ history = <<>>
    /\ frame_current = 1
    /\ clip_size = <<1920, 1080>>
    /\ frame_redetect = -1
    /\ job = [active |-> FALSE, sfra |-> 0, ids |-> {}]
    /\ next_id = Len(tracks) + 1
    /\ event = [type |-> "NONE"]
    /\ outcome = "none"
    /\ pre_tracks = tracks
    /\ pre_log = autotrack_log
    /\ pre_prune = <<>>
    /\ last_solve = [is_valid |-> FALSE, new_error |-> 0,
                     best_before |-> best_error_default, from_prune |-> FALSE]
    /\ solve_calls = 0
    /\ delete_calls = 0
    /\ run = [zero_at_start |-> {tracks[i].id : i \in {j \in DOMAIN tracks :
                                                       tracks[j].weight = 0}},
              committed |-> {}]
    /\ cycle = [ran |-> FALSE, number |-> 0]
    /\ panel_calls = 0

NextSolve ==
    \/ AutosolveInvoke
    \/ AutosolveEsc
    \/ AutosolveCancel
    \/ AutosolveOtherEvent
    \/ AutosolveSolving
    \/ AutosolvePruning
    \/ ClearLog
    \/ Filter

SpecSolve == InitSolve /\ [][NextSolve]_vars

----------------------------------------------------------------------------
(* Properties of the Solve-Prune controller *)

Stopped == op_status \in {"FINISHED", "CANCELLED", "RAISED", "ENDED"}

\* id and weight of every track, in dataset order
Weights(ts) == [i \in DOMAIN ts |-> <<ts[i].id, ts[i].weight>>]

WeightOf(ts, id) == ts[IndexOf(ts, id)].weight

\* the last solve was a post-prune solve whose error did not improve on best
LastSolveWorse ==
    /\ last_solve.is_valid
    /\ last_solve.from_prune
    /\ last_solve.new_error >= last_solve.best_before

\* C1 as claimed: one run of the Solve-Prune controller makes at most
\* max_iterations + 1 calls of solve_camera, on every path.
C1_SolveCallsAtMostMaxPlusOne == solve_calls <= max_iterations + 1

\* C1 as amended: a run makes at most max_iterations + 1 calls of solve_camera
\* whose result it evaluates, and one more only on the path that ends in a
\* regression revert (the re-solve of line 301): at most max_iterations + 2.
C1_SolveCallsBound ==
    solve_calls <= max_iterations + 1 + (IF LastSolveWorse THEN 1 ELSE 0)

\* the revert of the last allowed iteration: max_iterations + 2 calls
C1_Witness ==
    /\ op_status = "FINISHED"
    /\ outcome = "revert"
    /\ LastSolveWorse
    /\ iteration = max_iterations
    /\ solve_calls = max_iterations + 2

\* C2: when a post-prune solve returns new_error >= best (equality included),
\* then at the stop of the controller every candidate of that prune step is in
\* the dataset with the weight it had just before the prune step, and every
\* other track has the weight it had when the reverting handler started.
C2_RevertRestoresWeights ==
    (Stopped /\ LastSolveWorse) =>
        /\ \A id \in Range(candidates_to_prune) :
              /\ id \in Ids(tracks)
              /\ WeightOf(tracks, id) = WeightOf(pre_prune, id)
        /\ \A id \in Ids(tracks) \ Range(candidates_to_prune) :
              WeightOf(tracks, id) = WeightOf(pre_tracks, id)

\* a revert on equality that puts back a weight of 0.5 next to a kept track
C2_Witness ==
    /\ op_status = "FINISHED"
    /\ outcome = "revert"
    /\ last_solve.new_error = last_solve.best_before
    /\ \E id \in Range(candidates_to_prune) :
          WeightOf(pre_tracks, id) = 0 /\ WeightOf(tracks, id) = 5
    /\ Ids(tracks) \ Range(candidates_to_prune) # {}

\* best has been set by the first solve
BestIsSet == state = "PRUNING" \/ iteration > 0

\* C3: once the first solve has set best, no step increases best, every
\* committed iteration assigns a strictly smaller value, and a reverted
\* iteration leaves best unchanged.
C3_BestNeverIncreases ==
    [][BestIsSet =>
         /\ best_error' <= best_error
         /\ (outcome' \in {"commit", "commit_target"} /\ solve_calls' # solve_calls)
                => best_error' < best_error
         /\ outcome' = "revert" => best_error' = best_error]_vars

\* a second committed iteration: best went 6 -> 5 -> 4
C3_Witness ==
    /\ outcome = "commit"
    /\ iteration = 2
    /\ best_error = 4
    /\ last_solve.best_before = 5

\* C4: when the solve of the SOLVING state (the first one, or the one after a
\* prune step) leaves the reconstruction invalid, the controller appends exactly
\* one error status, stops with its timer removed, and every track keeps the
\* weight it had at the failure (no restore of the snapshot); a stopped
\* controller stays stopped, and no solve, prune or delete follows.
C4_InvalidSolveIsFatal ==
    /\ [](outcome = "invalid" =>
            /\ op_status = "CANCELLED"
            /\ ~timer
            /\ ~reconstruction.is_valid
            /\ autotrack_log =
                  log_msg(pre_log, <<"Solve Failed (Not enough tracks?)">>, "ERROR")
            /\ Weights(tracks) = Weights(pre_tracks))
    /\ [][Stopped => /\ op_status' = op_status
                      /\ solve_calls' = solve_calls
                      /\ delete_calls' = delete_calls
                      /\ Weights(tracks') = Weights(tracks)]_vars

\* an invalid solve after a prune step: the pruned weights stay at 0
C4_Witness ==
    /\ outcome = "invalid"
    /\ iteration >= 1
    /\ \E id \in Range(candidates_to_prune) :
          WeightOf(tracks, id) = 0 /\ history[id] > 0

\* the terminations of the Solve-Prune controller that are not fatal
NonFatalOutcomes ==
    {"first_target", "commit_target", "no_candidates", "cap", "revert", "esc"}

Summaries == {"Finished. Deleted tracks.", "Finished. No tracks deleted."}

\* C6 as claimed: every non-fatal termination of the Solve-Prune controller,
\* user cancellation included, ends with the final summary status of finish()
\* as the newest log entry.
C6_NonFatalEndsWithSummary ==
    (Stopped /\ outcome \in NonFatalOutcomes) =>
        /\ autotrack_log # <<>>
        /\ autotrack_log[Len(autotrack_log)].message[1] \in Summaries

----------------------------------------------------------------------------
(* OPERATOR: MAIN AUTO TRACKER (MODAL - TIMER BASED) *)

\* track.markers.find_frame(frame, exact=True) is not None
has_marker(t, frame) == frame \in DOMAIN t.markers

\* len(track.markers)
marker_count(t) == Cardinality(DOMAIN t.markers)

\* "marker" of lines 93-95, 142-144, 155-157, 178-180: the marker at the
\* current frame, or the one at the previous frame when that is absent; the
\* set holds its frame, and is empty when both are absent
marker_frame(t, current_frame) ==
    IF has_marker(t, current_frame) THEN {current_frame}
    ELSE IF has_marker(t, current_frame - 1) THEN {current_frame - 1}
    ELSE {}

prev_marker_fallback_only(t, current_frame, rate) ==
    has_marker(t, current_frame - rate - 1)

prev_marker_exact_only(t, current_frame, rate) ==
    has_marker(t, current_frame - rate)

\* "prev_marker" of lines 97-100: a marker at current_frame - rate, or at the
\* frame before it
prev_marker(t, current_frame, rate) ==
    \/ has_marker(t, current_frame - rate)
    \/ has_marker(t, current_frame - rate - 1)

\* marker and marker.mute (line 108)
slipping(t, current_frame) ==
    \E f \in marker_frame(t, current_frame) : t.markers[f].mute

classify_stop_at_min(t, current_frame, rate, MIN_TIME) ==
    IF t.hide \/ t.lock THEN "skip"
    ELSE IF prev_marker(t, current_frame, rate) /\ marker_count(t) < MIN_TIME
    THEN "delete"
    ELSE IF slipping(t, current_frame)
    THEN IF marker_count(t) >= MIN_TIME THEN "stop" ELSE "delete"
    ELSE "keep"

\* 1. ANALYZE, one track: lines 90-112
classify(t, current_frame, rate, MIN_TIME) ==
    IF t.hide \/ t.lock THEN "skip"
    ELSE IF prev_marker(t, current_frame, rate) /\ marker_count(t) < MIN_TIME
    THEN "delete"
    ELSE IF slipping(t, current_frame)
    THEN IF marker_count(t) > MIN_TIME THEN "stop" ELSE "delete"
    ELSE "keep"

\* tracks_to_delete / tracks_to_stop, as sets of track ids
classified(ts, current_frame, rate, MIN_TIME, what) ==
    {ts[i].id : i \in {j \in DOMAIN ts :
                         classify(ts[j], current_frame, rate, MIN_TIME) = what}}

\* track.select = value for the tracks whose id is in ids
set_select(ts, ids, value) ==
    [i \in DOMAIN ts |->
        IF ts[i].id \in ids THEN [ts[i] EXCEPT !.select = value] ELSE ts[i]]

\* a track as bpy.ops.clip.detect_features creates it: one unmuted marker at
\* the current frame, selected
DetectedTrack(id, current_frame, co) ==
    [id |-> id, hide |-> FALSE, lock |-> FALSE, select |-> TRUE,
     weight |-> 10, has_bundle |-> FALSE, average_error |-> 0,
     frames_limit |-> 0,
     markers |-> (current_frame :> [co |-> co, mute |-> FALSE])]

\* bpy.ops.clip.detect_features(...): appends one track per found feature
detect_features(ts, first_id, current_frame, found) ==
    ts \o [i \in DOMAIN found |->
              DetectedTrack(first_id + i - 1, current_frame, found[i])]

\* old_trackers of lines 138-146, as positions in ts
old_trackers(ts, new_ids, current_frame) ==
    {i \in DOMAIN ts : /\ ts[i].id \notin new_ids
                       /\ ~ts[i].hide
                       /\ marker_frame(ts[i], current_frame) # {}}

\* (new_marker.co - old_marker.co).length * diaglen < detect_distance, with
\* both sides squared: diaglen is sqrt(size[0]**2 + size[1]**2)
too_close_inclusive(co1, co2, size, detect_distance) ==
    LET dx == co1[1] - co2[1]
        dy == co1[2] - co2[2]
    IN (dx * dx + dy * dy) * (size[1] * size[1] + size[2] * size[2])
          <= detect_distance * detect_distance

too_close(co1, co2, size, detect_distance) ==
    LET dx == co1[1] - co2[1]
        dy == co1[2] - co2[2]
    IN (dx * dx + dy * dy) * (size[1] * size[1] + size[2] * size[2])
          < detect_distance * detect_distance

\* trackers_to_remove_overlap of lines 148-163, as track ids
overlapping(ts, new_ids, current_frame, size, detect_distance) ==
    {ts[n].id : n \in {m \in DOMAIN ts :
        /\ ts[m].id \in new_ids
        /\ has_marker(ts[m], current_frame)
        /\ \E o \in old_trackers(ts, new_ids, current_frame) :
              \E f \in marker_frame(ts[o], current_frame) :
                 too_close(ts[m].markers[current_frame].co,
                           ts[o].markers[f].co, size, detect_distance)}}

ready_to_track_any_track(t, to_stop, current_frame) ==
    /\ t.id \notin to_stop
    /\ \E f \in marker_frame(t, current_frame) : ~t.markers[f].mute

ready_to_track_any_marker(t, to_stop, current_frame) ==
    /\ ~(t.hide \/ t.lock)
    /\ marker_frame(t, current_frame) # {}

\* the test of lines 174-182: the track is tracked on from the current frame
ready_to_track(t, to_stop, current_frame) ==
    /\ ~(t.hide \/ t.lock)
    /\ t.id \notin to_stop
    /\ \E f \in marker_frame(t, current_frame) : ~t.markers[f].mute

select_for_tracking_rate_only(ts, to_stop, current_frame, rate) ==
    [i \in DOMAIN ts |->
        IF ready_to_track(ts[i], to_stop, current_frame)
        THEN [ts[i] EXCEPT !.select = TRUE, !.frames_limit = rate]
        ELSE ts[i]]

\* 5. TRACK, lines 173-191: select and set frames_limit = rate + 5
select_for_tracking(ts, to_stop, current_frame, rate) ==
    [i \in DOMAIN ts |->
        IF ready_to_track(ts[i], to_stop, current_frame)
        THEN [ts[i] EXCEPT !.select = TRUE, !.frames_limit = rate + 5]
        ELSE ts[i]]

\* execute(): lines 77-198.  found is what detect_features finds; raises names
\* the engine call that raises ("none" when all return).  The result holds
\* what the call leaves behind and what it computed on the way.
execute(ts, l, first_id, current_frame, found, raises) ==
    LET rate == scene.autotrack_rate
        MIN_TIME == scene.autotrack_filter_mintime
        to_delete == classified(ts, current_frame, rate, MIN_TIME, "delete")
        to_stop == classified(ts, current_frame, rate, MIN_TIME, "stop")
        \* 2. ACT
        marked == set_select(select_all_deselect(ts), to_delete, TRUE)
        acted == IF to_delete # {} THEN delete_track(marked) ELSE marked
        log1 == IF to_delete # {}
                THEN log_msg(l, <<"Deleted garbage tracks", Cardinality(to_delete)>>,
                             "TRASH")
                ELSE l
        acted2 == set_select(acted, to_stop, FALSE)
        log2 == IF to_stop # {}
                THEN log_msg(log1, <<"Stopped slipping tracks", Cardinality(to_stop)>>,
                             "PAUSE")
                ELSE log1
        \* 3. DETECT
        before_detect == select_all_deselect(acted2)
        detected == detect_features(before_detect, first_id, current_frame, found)
        new_ids == {detected[i].id : i \in {j \in DOMAIN detected : detected[j].select}}
        \* 4. OVERLAP
        remove == overlapping(detected, new_ids, current_frame, clip_size,
                              scene.autotrack_detect_distance)
        suppressed == delete_track(set_select(select_all_deselect(detected),
                                              remove, TRUE))
        \* 5. TRACK
        selected == select_for_tracking(suppressed, to_stop, current_frame, rate)
        count_tracking == Cardinality({i \in DOMAIN selected :
                              ready_to_track(selected[i], to_stop, current_frame)})
        log3 == log_msg(log2, <<"Tracking feats to frame", count_tracking,
                                current_frame + rate>>, "PLAY")
        computed == [ran |-> TRUE, number |-> cycle.number + 1,
                     frame |-> current_frame,
                     to_delete |-> to_delete, to_stop |-> to_stop,
                     new_trackers |-> new_ids, overlap |-> remove,
                     survivors |-> {detected[i].id :
                         i \in old_trackers(detected, new_ids, current_frame)},
                     detected |-> detected,
                     \* the frame of the cycle before this one and the new
                     \* tracks it kept
                     before |-> IF cycle.ran
                                THEN [frame |-> cycle.frame,
                                      created |-> cycle.new_trackers \ cycle.overlap]
                                ELSE [frame |-> current_frame, created |-> {}],
                     \* the call got as far as the selection of 5. TRACK
                     selection_done |-> TRUE,
                     \* the tracks line 182 selected for the tracking job
                     selected |-> {selected[i].id :
                         i \in {j \in DOMAIN selected : selected[j].select}},
                     \* every track a cycle of this run put in tracks_to_stop,
                     \* with the markers it had then
                     stopped |-> (IF cycle.ran THEN cycle.stopped ELSE {}) \cup
                         {[id |-> ts[i].id, markers |-> ts[i].markers] :
                             i \in {j \in DOMAIN ts : ts[j].id \in to_stop}}]
        \* the log_msg calls of lines 119 and 124, and the delete_track() call
        \* of line 120
        logged2 == (IF to_delete # {} THEN 1 ELSE 0) + (IF to_stop # {} THEN 1 ELSE 0)
        deletes1 == IF to_delete # {} THEN 1 ELSE 0
    IN IF raises = "detect_features"
       THEN [tracks |-> before_detect, log |-> log2, raised |-> TRUE,
             logged |-> logged2, deletes |-> deletes1,
             redetect_set |-> FALSE, next_id |-> first_id,
             computed |-> [computed EXCEPT !.new_trackers = {}, !.overlap = {},
                                           !.survivors = {},
                                           !.detected = before_detect,
                                           !.selection_done = FALSE,
                                           !.selected = {}]]
       ELSE IF raises = "track_markers"
       THEN [tracks |-> selected, log |-> log3, raised |-> TRUE,
             logged |-> logged2 + 1, deletes |-> deletes1 + 1,
             redetect_set |-> TRUE, next_id |-> first_id + Len(found),
             computed |-> computed]
       ELSE [tracks |-> selected, log |-> log3, raised |-> FALSE,
             logged |-> logged2 + 1, deletes |-> deletes1 + 1,
             redetect_set |-> TRUE, next_id |-> first_id + Len(found),
             computed |-> computed]

trigger_due_without_sentinel(redetect, current_frame) ==
    current_frame >= redetect - 1

trigger_due_no_tolerance(redetect, current_frame) ==
    redetect = -1 \/ current_frame >= redetect

\* line 213: the cycle is due
trigger_due(redetect, current_frame) ==
    redetect = -1 \/ current_frame >= redetect - 1

\* normalized marker positions detection and the initial dataset draw from
Positions == {<<0, 0>>, <<1, 0>>}

\* what one detect_features call can find: any number of features at any
\* positions, while the run has seen fewer than MaxIds tracks
FoundChoices(first_id) ==
    UNION {[1..n -> Positions] : n \in 0..(MaxIds - first_id + 1)}

\* the engine call of execute() that raises, if any
Raises == {"none", "detect_features", "track_markers"}

\* what a call of execute() from invoke() or modal() leaves behind
Executed(type, found, raises) ==
    \E r \in {execute(tracks, IF type = "INVOKE"
                             THEN log_msg(autotrack_log, <<"Starting Auto Track...">>,
                                          "CON_FOLLOWTRACK")
                             ELSE autotrack_log,
                     next_id, frame_current, found, raises)} :
       /\ tracks' = r.tracks
       /\ autotrack_log' = r.log
       \* line 38: the index is written by log_msg only
       /\ autotrack_log_index' = IF type = "INVOKE" \/ r.logged > 0
                                 THEN log_index(autotrack_log')
                                 ELSE autotrack_log_index
       \* lines 120 and 167
       /\ delete_calls' = delete_calls + r.deletes
       /\ next_id' = r.next_id
       /\ frame_redetect' = IF r.redetect_set
                            THEN frame_current + scene.autotrack_rate
                            ELSE IF type = "INVOKE" THEN -1 ELSE frame_redetect
       \* the job takes the tracks that are selected when it starts
       /\ job' = IF r.raised THEN job
                 ELSE [active |-> TRUE, sfra |-> frame_current,
                       ids |-> r.computed.selected]
       \* execute() returns FINISHED; invoke() and modal() go on as RUNNING_MODAL
       \* and PASS_THROUGH
       /\ op_status' = IF r.raised THEN "RAISED"
                       ELSE IF type = "EXEC" THEN "FINISHED" ELSE "RUNNING"
       /\ cycle' = r.computed
       /\ event' = [type |-> type, frame |-> frame_current,
                    redetect |-> frame_redetect, executed |-> TRUE,
                    raised |-> r.raised]

\* invoke(): lines 220-227
AutotrackInvoke ==
    /\ op_status = "IDLE"
    /\ pre_tracks' = tracks
    /\ pre_log' = autotrack_log
    /\ timer' = TRUE
    /\ \E found \in FoundChoices(next_id), raises \in Raises :
          Executed("INVOKE", found, raises)
    /\ outcome' = "invoke"
    /\ UNCHANGED <<scene, active_object, panel_calls, solveVars, frame_current,
                   clip_size>>

\* execute() run on its own, lines 77-198: bpy.ops.autotrack.auto_track()
\* without INVOKE_DEFAULT runs one cycle with no timer, no modal handler and no
\* 'Starting Auto Track...' line, and returns FINISHED
AutotrackExecute ==
    /\ op_status = "IDLE"
    /\ pre_tracks' = tracks
    /\ pre_log' = autotrack_log
    /\ \E found \in FoundChoices(next_id), raises \in Raises :
          Executed("EXEC", found, raises)
    /\ outcome' = "execute"
    /\ UNCHANGED <<scene, active_object, panel_calls, timer, solveVars,
                   frame_current, clip_size>>

\* modal(), event.type in {'ESC'}: lines 201-204, then cancel() lines 229-237
AutotrackEsc ==
    /\ op_status = "RUNNING"
    /\ pre_tracks' = tracks
    /\ pre_log' = autotrack_log
    /\ autotrack_log' = log_msg(autotrack_log, <<"Auto Track Cancelled">>, "CANCEL")
    /\ autotrack_log_index' = log_index(autotrack_log')
    /\ timer' = FALSE
    /\ \E area \in Areas :
          /\ tracks' = reset_frames_limit(tracks, area)
          /\ op_status' = cancel_status(area, "CANCELLED")
          /\ event' = [type |-> "ESC", frame |-> frame_current,
                       redetect |-> frame_redetect, executed |-> FALSE,
                       raised |-> area = "none"]
    /\ outcome' = "esc"
    /\ UNCHANGED <<scene, active_object, panel_calls, solveVars, delete_calls, frame_current,
                   clip_size, frame_redetect, job, next_id, cycle>>

\* cancel(), lines 229-237, called by the host when it ends the running modal
\* operator (window closed, file loaded, quit): the timer is removed, every
\* frames_limit is reset and nothing is logged
AutotrackCancel ==
    /\ op_status = "RUNNING"
    /\ pre_tracks' = tracks
    /\ pre_log' = autotrack_log
    /\ timer' = FALSE
    /\ \E area \in Areas :
          /\ tracks' = reset_frames_limit(tracks, area)
          /\ op_status' = cancel_status(area, "ENDED")
          /\ event' = [EventSeen("CANCEL") EXCEPT !.raised = area = "none"]
    /\ outcome' = "cancel"
    /\ UNCHANGED <<autotrack_log, autotrack_log_index, scene, active_object,
                   panel_calls, solveVars, delete_calls, frame_current, clip_size,
                   frame_redetect, job, next_id, cycle>>

\* modal(), event.type == 'TIMER': lines 206-216
AutotrackTimer ==
    /\ op_status = "RUNNING"
    /\ pre_tracks' = tracks
    /\ pre_log' = autotrack_log
    /\ UNCHANGED <<scene, active_object, panel_calls, solveVars, frame_current,
                   clip_size>>
    /\ IF frame_current >= scene.frame_end
       THEN /\ autotrack_log' =
                   log_msg(autotrack_log, <<"End of clip reached">>, "CHECKMARK")
            /\ autotrack_log_index' = log_index(autotrack_log')
            /\ timer' = FALSE
            /\ \E area \in Areas :
                  /\ tracks' = reset_frames_limit(tracks, area)
                  /\ op_status' = cancel_status(area, "FINISHED")
                  /\ event' = [type |-> "TIMER", frame |-> frame_current,
                               redetect |-> frame_redetect, executed |-> FALSE,
                               raised |-> area = "none"]
            /\ outcome' = "end_of_clip"
            /\ UNCHANGED <<frame_redetect, job, next_id, cycle, delete_calls>>
       ELSE IF trigger_due(frame_redetect, frame_current)
       THEN \E area \in Areas :
              IF has_clip(area)
              THEN /\ cycle.number < MaxCycles
                   /\ \E found \in FoundChoices(next_id), raises \in Raises :
                         Executed("TIMER", found, raises)
                   /\ outcome' = "cycle"
                   /\ UNCHANGED timer
              ELSE \* execute() raises at lines 79-80, before it writes anything
                   /\ op_status' = "RAISED"
                   /\ outcome' = "no_clip"
                   /\ event' = [type |-> "TIMER", frame |-> frame_current,
                                redetect |-> frame_redetect, executed |-> TRUE,
                                raised |-> TRUE]
                   /\ UNCHANGED <<tracks, autotrack_log, autotrack_log_index, timer,
                                  frame_redetect, job, next_id, cycle, delete_calls>>
       ELSE /\ outcome' = "not_due"
            /\ event' = [type |-> "TIMER", frame |-> frame_current,
                         redetect |-> frame_redetect, executed |-> FALSE,
                         raised |-> FALSE]
            /\ UNCHANGED <<tracks, autotrack_log, autotrack_log_index, timer,
                           op_status, frame_redetect, job, next_id, cycle,
                           delete_calls>>

\* the tracks the running job tracks on from the current frame: selected
\* when the job started, unlocked, visible, with an unmuted marker there, inside their frames_limit
trackable(ts) ==
    {i \in DOMAIN ts :
        /\ ts[i].id \in job.ids /\ ~ts[i].lock /\ ~ts[i].hide
        /\ has_marker(ts[i], frame_current)
        /\ ~ts[i].markers[frame_current].mute
        /\ (ts[i].frames_limit = 0
              \/ frame_current + 1 - job.sfra <= ts[i].frames_limit)}

\* bpy.ops.clip.track_markers('INVOKE_DEFAULT', backwards=False, sequence=True),
\* one frame of the job: every tracked track gets a marker at the next frame,
\* muted where the tracker lost the feature, and the scene moves to that frame
TrackerStep ==
    /\ op_status = "RUNNING"
    /\ job.active
    /\ frame_current < scene.frame_end
    /\ trackable(tracks) # {}
    /\ \E lost \in SUBSET trackable(tracks) :
          tracks' = [i \in DOMAIN tracks |->
              IF i \in trackable(tracks)
              THEN [tracks[i] EXCEPT !.markers =
                       [f \in DOMAIN tracks[i].markers \cup {frame_current + 1} |->
                           IF f = frame_current + 1
                           THEN [co |-> tracks[i].markers[frame_current].co,
                                 mute |-> i \in lost]
                           ELSE tracks[i].markers[f]]]
              ELSE tracks[i]]
    /\ frame_current' = frame_current + 1
    /\ event' = [type |-> "TRACKER", frame |-> frame_current,
                 redetect |-> frame_redetect, executed |-> FALSE, raised |-> FALSE]
    /\ outcome' = "tracked"
    /\ UNCHANGED <<autotrack_log, autotrack_log_index, scene, active_object, panel_calls, timer,
                   op_status, solveVars, delete_calls, clip_size, frame_redetect,
                   job, next_id, cycle, pre_tracks, pre_log>>

----------------------------------------------------------------------------
(* The Tracking Cycle specification *)

\* scene.frame_end of the runs
FrameEnds == {1}

\* the markers of a track that is in the dataset at invoke
InitMarkers(frames, co, last_muted) ==
    [f \in frames |-> [co |-> co,
                       mute |-> last_muted /\ \A g \in frames : g <= f]]

InitTrack(id, hide, lock, markers) ==
    [id |-> id, hide |-> hide, lock |-> lock, select |-> FALSE,
     weight |-> 10, has_bundle |-> FALSE, average_error |-> 0,
     frames_limit |-> 0, markers |-> markers]

\* the markers of a track the tracker lost at the frame lost and found again
\* one frame later: unmuted before and after, muted at lost
RefoundMarkers(lost, co) ==
    [f \in (lost - 1)..(lost + 1) |-> [co |-> co, mute |-> f = lost]]

\* (hide, lock) of the tracks a run can start from
InitFlags == {<<FALSE, FALSE>>, <<TRUE, FALSE>>, <<FALSE, TRUE>>}

\* the datasets a run can start from, given the frame it starts at; the user
\* may have left the track selected, and a track may have markers past the
\* start frame, an unmuted one after a muted one among them
InitDatasets(start) ==
    {<<>>} \cup
    {<<[InitTrack(1, flags[1], flags[2], InitMarkers(frames, <<0, 0>>, muted))
          EXCEPT !.select = selected]>> :
        flags \in InitFlags,
        frames \in {{start}, {start - 2}, (start - 2)..start},
        muted \in BOOLEAN,
        selected \in BOOLEAN}
    \cup {<<InitTrack(1, FALSE, FALSE, RefoundMarkers(start, <<0, 0>>))>>}

\* what every run of the Tracking Cycle controller starts from, whatever the
\* scene, the frame and the dataset
InitOperators ==
    /\ next_id = Len(tracks) + 1
    /\ clip_size = <<4, 3>>
    /\ autotrack_log = <<>>
    /\ autotrack_log_index = 0
    /\ active_object = TRUE
    /\ reconstruction = [is_valid |-> FALSE, average_error |-> 0]
    /\ timer = FALSE
    /\ op_status = "IDLE"
    /\ state = "IDLE"
    /\ iteration = 0
    /\ state_from_prune = FALSE
    /\ best_error = best_error_default
    /\ tracks_disabled_count = 0
    /\ candidates_to_prune = <<>>
    /\ history = <<>>
    /\ frame_redetect = -1
    /\ job = [active |-> FALSE, sfra |-> 0, ids |-> {}]
    /\ event = [type |-> "NONE"]
    /\ outcome = "none"
    /\ pre_tracks = tracks
    /\ pre_log = autotrack_log
    /\ pre_prune = <<>>
    /\ last_solve = [is_valid |-> FALSE, new_error |-> 0,
                     best_before |-> best_error_default, from_prune |-> FALSE]
    /\ solve_calls = 0
    /\ delete_calls = 0
    /\ run = [zero_at_start |-> {tracks[i].id : i \in {j \in DOMAIN tracks :
                                                       tracks[j].weight = 0}},
              committed |-> {}]
    /\ cycle = [ran |-> FALSE, number |-> 0]
    /\ panel_calls = 0

InitTracking ==
    /\ \E rate \in {1, 2}, mintime \in {2, 3}, distance \in {5, 6},
          frame_end \in FrameEnds :
          scene = [autotrack_rate |-> rate, autotrack_filter_mintime |-> mintime,
                   autotrack_detect_distance |-> distance, frame_end |-> frame_end,
                   autotrack_solve_delete_failed |-> TRUE,
                   autotrack_solve_delete_count |-> 1]
    \* the frame the run starts at: -1 - rate makes the first frame_redetect -1,
    \* -2 leaves room for a trigger before, at and after frame_redetect - 1
    /\ frame_current \in {-1 - scene.autotrack_rate, -2, 0}
    /\ tracks \in InitDatasets(frame_current)
    /\ InitOperators

NextTrack ==
    \/ AutotrackInvoke
    \/ AutotrackExecute
    \/ AutotrackEsc
    \/ AutotrackCancel
    \/ AutotrackTimer
    \/ TrackerStep
    \/ ClearLog
    \/ Filter

SpecTrack == InitTracking /\ [][NextTrack]_vars

----------------------------------------------------------------------------
(* Properties of the Tracking Cycle controller *)

\* the last event ran execute() (from invoke() or from modal()), and execute()
\* had a clip to work on (lines 79-80)
CycleRan ==
    /\ event.type \in {"INVOKE", "TIMER", "EXEC"}
    /\ event.executed
    /\ outcome # "no_clip"

TrackById(ts, id) == ts[IndexOf(ts, id)]

\* C5 as claimed: on every path by which a controller stops, an engine call
\* that fails inside a cycle included, its timer has been removed.
C5_StoppedWithoutTimer == Stopped => ~timer

\* the tracks of ts the garbage rule names at frame f
GarbageByRule(ts, f) ==
    {ts[i].id : i \in {j \in DOMAIN ts :
        /\ ~ts[j].hide /\ ~ts[j].lock
        /\ has_marker(ts[j], f - scene.autotrack_rate)
        /\ marker_count(ts[j]) < scene.autotrack_filter_mintime}}

\* C7: in every cycle, run at frame f, each visible, unlocked track with a
\* marker at f - rate and fewer than mintime markers is in the delete set of the
\* cycle and is gone from the dataset after it.
C7_GarbageRule ==
    CycleRan =>
        \A id \in GarbageByRule(pre_tracks, cycle.frame) :
            id \in cycle.to_delete /\ id \notin Ids(tracks)

\* a cycle that met such a track
C7_Witness ==
    /\ CycleRan
    /\ GarbageByRule(pre_tracks, cycle.frame) # {}

\* the visible, unlocked tracks of ts that slip at frame f: the marker at f,
\* or the one at f - 1 when there is none at f, is muted
Slipping(ts, f) ==
    {ts[i].id : i \in {j \in DOMAIN ts :
        /\ ~ts[j].hide /\ ~ts[j].lock
        /\ IF f \in DOMAIN ts[j].markers THEN ts[j].markers[f].mute
           ELSE (f - 1) \in DOMAIN ts[j].markers /\ ts[j].markers[f - 1].mute}}

\* C8: in every cycle a slipping track with more than mintime markers is in the
\* stop set, not in the delete set, and stays in the dataset; one with mintime
\* markers or fewer is in the delete set and not in the stop set.
C8_StopVersusDelete ==
    CycleRan =>
        \A id \in Slipping(pre_tracks, cycle.frame) :
            IF marker_count(TrackById(pre_tracks, id)) > scene.autotrack_filter_mintime
            THEN id \in cycle.to_stop /\ id \notin cycle.to_delete
                 /\ id \in Ids(tracks)
            ELSE id \in cycle.to_delete /\ id \notin cycle.to_stop

\* a slipping track with exactly mintime markers went through a cycle
C8_Witness ==
    /\ CycleRan
    /\ \E id \in Slipping(pre_tracks, cycle.frame) :
          marker_count(TrackById(pre_tracks, id)) = scene.autotrack_filter_mintime

\* the position overlap suppression reads for a survivor at frame f
SurvivorCo(t, f) ==
    IF f \in DOMAIN t.markers THEN t.markers[f].co ELSE t.markers[f - 1].co

\* squared distance of two normalized positions scaled by the squared diagonal
ScaledDistance2(co1, co2) ==
    ((co1[1] - co2[1]) * (co1[1] - co2[1]) + (co1[2] - co2[2]) * (co1[2] - co2[2]))
        * (clip_size[1] * clip_size[1] + clip_size[2] * clip_size[2])

\* the survivors of the last cycle: not hidden, not new, with a marker at the
\* current or the previous frame
Survivors ==
    {t \in Range(cycle.detected) :
        /\ t.id \notin cycle.new_trackers
        /\ ~t.hide
        /\ (cycle.frame \in DOMAIN t.markers \/ (cycle.frame - 1) \in DOMAIN t.markers)}

\* the new candidates of the last cycle with a marker at the current frame
Candidates ==
    {t \in Range(cycle.detected) :
        t.id \in cycle.new_trackers /\ cycle.frame \in DOMAIN t.markers}

\* C9: in every cycle a new candidate with a marker at the current frame is
\* deleted if and only if some survivor lies at scaled distance strictly below
\* detect_distance.
C9_OverlapSuppression ==
    (CycleRan /\ ~(event.raised /\ cycle.new_trackers = {})) =>
        \A c \in Candidates :
            (c.id \notin Ids(tracks)) <=>
                \E s \in Survivors :
                    ScaledDistance2(c.markers[cycle.frame].co,
                                    SurvivorCo(s, cycle.frame))
                      < scene.autotrack_detect_distance * scene.autotrack_detect_distance

\* a candidate kept at a distance of exactly detect_distance from a survivor
C9_Witness ==
    /\ CycleRan
    /\ \E c \in Candidates : \E s \in Survivors :
          /\ c.id \in Ids(tracks)
          /\ ScaledDistance2(c.markers[cycle.frame].co, SurvivorCo(s, cycle.frame))
                = scene.autotrack_detect_distance * scene.autotrack_detect_distance

\* C10 as claimed: a trigger received while frame_redetect is -1 runs the cycle,
\* whatever the current frame.
C10_SentinelAlwaysRuns ==
    (event.type = "TIMER" /\ event.redetect = -1) => event.executed

\* C10 as amended: a timer trigger received while frame_redetect is -1 and the
\* current frame is below frame_end runs the cycle, however the current frame
\* compares with frame_redetect - 1; at frame_end or later the controller
\* finishes instead (by the end-of-clip branch, whose cancel() raises in
\* place of the return when the context has no area).
C10_SentinelRunsBeforeEnd ==
    (event.type = "TIMER" /\ event.redetect = -1) =>
        IF event.frame < scene.frame_end THEN event.executed
        ELSE /\ ~event.executed
             /\ outcome = "end_of_clip" => ~timer
             /\ op_status = IF event.raised THEN "RAISED" ELSE "FINISHED"

\* a cycle run on the sentinel at a frame the frame test alone would not pass
C10_Witness ==
    /\ event.type = "TIMER"
    /\ event.redetect = -1
    /\ event.executed
    /\ event.frame < event.redetect - 1

----------------------------------------------------------------------------
(* Cancel, exclusion of hidden and locked tracks, the status log *)

\* C11 as claimed: after ESC the Tracking Cycle controller is cancelled, its
\* timer is removed, every track of the dataset has frames_limit 0, and the
\* dataset holds the tracks it held when ESC arrived: no deleted track comes
\* back.
C11_EscResetsThrottle ==
    event.type = "ESC" =>
        /\ op_status = "CANCELLED"
        /\ ~timer
        /\ \A i \in DOMAIN tracks : tracks[i].frames_limit = 0
        /\ Len(tracks) = Len(pre_tracks)
        /\ \A i \in DOMAIN tracks :
              tracks[i] = [pre_tracks[i] EXCEPT !.frames_limit = 0]

\* the tracks of ts that are hidden or locked
HiddenOrLocked(ts) == {t \in Range(ts) : t.hide \/ t.lock}

\* C12: a cycle leaves every hidden or locked track out: it is in neither the
\* delete set nor the stop set, it is still in the dataset after the cycle with
\* the markers and the frames_limit it had, and it is not selected.
C12_HiddenLockedUntouched ==
    CycleRan =>
        \A t \in HiddenOrLocked(pre_tracks) :
            /\ t.id \notin cycle.to_delete
            /\ t.id \notin cycle.to_stop
            /\ t.id \in Ids(tracks)
            /\ ~TrackById(tracks, t.id).select
            /\ TrackById(tracks, t.id).frames_limit = t.frames_limit
            /\ TrackById(tracks, t.id).frames_limit # scene.autotrack_rate + 5
            /\ TrackById(tracks, t.id).markers = t.markers

\* a cycle that met a hidden or locked track which was selected when the cycle
\* started and, were it visible and unlocked, would have been tracked on
C12_Witness ==
    /\ CycleRan
    /\ \E t \in HiddenOrLocked(pre_tracks) :
          /\ t.select
          /\ has_marker(t, cycle.frame)
          /\ ~t.markers[cycle.frame].mute

\* the number of log_msg calls the last handler of the Solve-Prune controller
\* made, by the branch it took
LogCalls ==
    CASE outcome \in {"none", "no_active_object", "pruned", "clear_log", "cancel",
                      "no_area", "pass_through"} -> 0
      [] outcome \in {"invoke", "esc", "invalid", "first", "commit", "cap",
                      "filter"} -> 1
      [] outcome \in {"revert", "no_candidates"} -> 2
      [] outcome \in {"first_target", "commit_target"} -> 3

\* the status the last handler of the Solve-Prune controller logged last
NewestStatus ==
    CASE outcome = "invoke" -> {"--- Starting Auto Solve ---"}
      [] outcome = "esc" -> {"Auto Solve Cancelled by User"}
      [] outcome = "invalid" -> {"Solve Failed (Not enough tracks?)"}
      [] outcome = "first" -> {"Initial Error"}
      [] outcome = "commit" -> {"Iter"}
      [] outcome = "filter" -> {"Selected high-error tracks"}
      [] OTHER -> Summaries

\* the entries the last handler's log_msg calls pushed out of the log
Evicted ==
    IF Len(pre_log) + LogCalls > LOG_CAP
    THEN Len(pre_log) + LogCalls - LOG_CAP
    ELSE 0

\* C13: the log never holds more than 50 entries; after any handler but Clear
\* Log, which calls no log_msg, it is the log the handler found, without its
\* oldest entries when the cap was exceeded and in the same order, followed by
\* the entries the handler appended, newest last; a handler that logged leaves
\* the index at the newest entry.
C13_LogCappedOldestFirst ==
    /\ Len(autotrack_log) <= LOG_CAP
    /\ outcome # "clear_log" =>
          /\ Len(autotrack_log) = Len(pre_log) + LogCalls - Evicted
          /\ \A i \in 1..(Len(pre_log) - Evicted) :
                autotrack_log[i] = pre_log[i + Evicted]
          /\ LogCalls > 0 =>
                autotrack_log[Len(autotrack_log)].message[1] \in NewestStatus
          /\ LogCalls > 0 => autotrack_log_index = Len(autotrack_log) - 1

\* a handler that found the log full and pushed out its oldest entries
C13_Witness ==
    /\ Len(pre_log) = LOG_CAP
    /\ Evicted >= 2
    /\ Len(autotrack_log) = LOG_CAP
    /\ autotrack_log[1] = pre_log[1 + Evicted]
    /\ autotrack_log[1] # pre_log[1]

----------------------------------------------------------------------------
(* The first solve, the candidates of a prune step, the final deletion *)

\* the last handler evaluated the first solve of the run
FirstSolveDone == outcome \in {"first", "first_target"}

\* C14 as claimed: after the first solve best is the error of that solve and the
\* controller goes on to PRUNING; the target check is not applied to it.
C14_FirstSolveGoesToPruning ==
    FirstSolveDone =>
        /\ best_error = last_solve.new_error
        /\ state = "PRUNING"
        /\ op_status = "RUNNING"

\* C14 as amended: after the first solve and after every committed iteration
\* best is the error of that solve and the state is PRUNING; the target check
\* follows both: the controller finishes when best <= target_error and goes on
\* to the prune step otherwise.
C14_TargetCheckAfterFirstAndCommit ==
    outcome \in {"first", "first_target", "commit", "commit_target"} =>
        /\ best_error = last_solve.new_error
        /\ state = "PRUNING"
        /\ ~state_from_prune
        /\ IF best_error <= target_error
           THEN op_status = "FINISHED" /\ ~timer
           ELSE op_status = "RUNNING" /\ timer

\* a run whose first solve is at the target: it finishes without a prune step
C14_Witness ==
    /\ outcome = "first_target"
    /\ op_status = "FINISHED"
    /\ solve_calls = 1
    /\ iteration = 0
    /\ best_error = target_error
    /\ Weights(tracks) = Weights(pre_tracks)

\* the tracks a prune step may take, of the dataset ts it found: visible, with
\* weight > 0, and with or without a bundle
Prunable(ts, bundled) ==
    {i \in DOMAIN ts : ts[i].weight > 0 /\ ~ts[i].hide /\ ts[i].has_bundle = bundled}

\* position i of ts ranks before position j: larger error, or the same error
\* and earlier in the dataset
RanksBefore(ts, i, j) ==
    \/ ts[i].average_error > ts[j].average_error
    \/ ts[i].average_error = ts[j].average_error /\ i < j

\* the first delete_count bundled tracks in that ranking
WorstByRule(ts) ==
    {i \in Prunable(ts, TRUE) :
        Cardinality({j \in Prunable(ts, TRUE) : RanksBefore(ts, j, i)})
            < scene.autotrack_solve_delete_count}

FailedByRule(ts) ==
    IF scene.autotrack_solve_delete_failed THEN Prunable(ts, FALSE) ELSE {}

MinOf(a, b) == IF a < b THEN a ELSE b

\* C15: a prune step within the cap computes as candidates the failed tracks
\* (when delete_failed is set) and the first delete_count bundled tracks by error
\* descending, ties in dataset order, each track once; when there are any,
\* exactly these tracks get weight 0 and every other weight stays.
C15_CandidateSet ==
    outcome \in {"pruned", "no_candidates"} =>
        LET ts == pre_tracks
            byRule == {ts[i].id : i \in FailedByRule(ts) \cup WorstByRule(ts)}
        IN /\ Range(candidates_to_prune) = byRule
           /\ Len(candidates_to_prune) =
                 Cardinality(FailedByRule(ts))
                   + MinOf(scene.autotrack_solve_delete_count,
                           Cardinality(Prunable(ts, TRUE)))
           /\ (outcome = "no_candidates") <=> (byRule = {})
           /\ outcome = "pruned" =>
                 /\ Len(tracks) = Len(ts)
                 /\ \A i \in DOMAIN ts :
                       tracks[i] = IF ts[i].id \in byRule
                                   THEN [ts[i] EXCEPT !.weight = 0]
                                   ELSE ts[i]

\* a prune step that met two bundled tracks of equal error with delete_count 1:
\* it took the one that comes first in the dataset
C15_Witness ==
    /\ outcome = "pruned"
    /\ scene.autotrack_solve_delete_count = 1
    /\ \E i, j \in Prunable(pre_tracks, TRUE) :
          /\ i < j
          /\ pre_tracks[i].average_error = pre_tracks[j].average_error
          /\ tracks[i].weight = 0
          /\ tracks[j].weight > 0

\* the tracks of weight 0 that finish() finds when the last handler calls it:
\* those of weight 0 when the handler started, less the candidates a revert has
\* just given their weight back
ZeroAtFinish ==
    {t.id : t \in {u \in Range(pre_tracks) :
        /\ u.weight = 0
        /\ ~(outcome = "revert" /\ u.id \in Range(candidates_to_prune))}}

\* C16: a run calls delete_track at most once, and only when it finishes: a run
\* that is not finished has deleted nothing; a run that finishes after at least
\* one committed iteration deletes, in one call, exactly the tracks of weight 0;
\* one that finishes without a committed iteration deletes nothing.  The count
\* finish() reads moves only when an iteration is committed.
C16_DeleteOnceInDone ==
    /\ [](/\ delete_calls <= 1
          /\ op_status # "FINISHED" =>
                delete_calls = 0 /\ Ids(tracks) = 1..(next_id - 1)
          /\ op_status = "FINISHED" =>
                IF tracks_disabled_count > 0
                THEN /\ delete_calls = 1
                     /\ Ids(tracks) = Ids(pre_tracks) \ ZeroAtFinish
                     /\ \A i \in DOMAIN tracks : tracks[i].weight # 0
                ELSE /\ delete_calls = 0
                     /\ Ids(tracks) = 1..(next_id - 1))
    /\ [][tracks_disabled_count' # tracks_disabled_count =>
             /\ outcome' \in {"commit", "commit_target"}
             /\ tracks_disabled_count' =
                   tracks_disabled_count + Len(candidates_to_prune)
             /\ candidates_to_prune # <<>>]_vars

\* a run that committed one prune step, reverted the next and deleted the
\* committed track only
C16_Witness ==
    /\ op_status = "FINISHED"
    /\ outcome = "revert"
    /\ delete_calls = 1
    /\ tracks_disabled_count = 1
    /\ \E id \in Range(candidates_to_prune) : id \in Ids(tracks)
    /\ Ids(pre_tracks) \ Ids(tracks) # {}

----------------------------------------------------------------------------
(* Classification, triggers, the continuation selection, stopped tracks *)

\* the visible, unlocked tracks of ts that do not slip at frame f
NotSlipping(ts, f) ==
    {t \in Range(ts) : ~t.hide /\ ~t.lock /\ t.id \notin Slipping(ts, f)}

\* C17 as claimed: a track that does not slip is in the delete set only if it
\* has a marker at exactly current_frame - rate and fewer than mintime markers;
\* every other such track is in neither set and stays in the dataset.
C17_GarbageOnlyAtExactFrame ==
    CycleRan =>
        \A t \in NotSlipping(pre_tracks, cycle.frame) :
            IF /\ has_marker(t, cycle.frame - scene.autotrack_rate)
               /\ marker_count(t) < scene.autotrack_filter_mintime
            THEN t.id \in cycle.to_delete
            ELSE /\ t.id \notin cycle.to_delete
                 /\ t.id \notin cycle.to_stop
                 /\ t.id \in Ids(tracks)

\* C17 as amended: a track that does not slip is in the delete set if and only
\* if it has fewer than mintime markers and a marker at current_frame - rate or,
\* failing that, at current_frame - rate - 1; every other such track is in
\* neither set, stays in the dataset and keeps its markers.
C17_GarbageWithFallbackFrame ==
    CycleRan =>
        \A t \in NotSlipping(pre_tracks, cycle.frame) :
            IF /\ \/ has_marker(t, cycle.frame - scene.autotrack_rate)
                  \/ has_marker(t, cycle.frame - scene.autotrack_rate - 1)
               /\ marker_count(t) < scene.autotrack_filter_mintime
            THEN t.id \in cycle.to_delete /\ t.id \notin Ids(tracks)
            ELSE /\ t.id \notin cycle.to_delete
                 /\ t.id \notin cycle.to_stop
                 /\ t.id \in Ids(tracks)
                 /\ TrackById(tracks, t.id).markers = t.markers

\* a cycle that deleted a track which does not slip and has its only marker at
\* current_frame - rate - 1
C17_Witness ==
    /\ CycleRan
    /\ \E t \in NotSlipping(pre_tracks, cycle.frame) :
          /\ ~has_marker(t, cycle.frame - scene.autotrack_rate)
          /\ has_marker(t, cycle.frame - scene.autotrack_rate - 1)
          /\ t.id \in cycle.to_delete
          /\ t.id \notin Ids(tracks)

\* C18: a timer trigger before the end of the clip runs the cycle if and only
\* if frame_redetect is -1 or the current frame is at least frame_redetect - 1;
\* a cycle that got as far as line 193 leaves frame_redetect at its frame plus
\* rate; a trigger that is not due leaves the dataset, the log, frame_redetect
\* and the operator as they were.
C18_TriggerDueOrUntouched ==
    /\ (event.type = "TIMER" /\ event.frame < scene.frame_end) =>
          /\ event.executed <=>
                (event.redetect = -1 \/ event.frame >= event.redetect - 1)
          /\ ~event.executed =>
                /\ tracks = pre_tracks
                /\ autotrack_log = pre_log
                /\ frame_redetect = event.redetect
                /\ frame_current = event.frame
                /\ op_status = "RUNNING"
                /\ timer
    /\ op_status = "RUNNING" =>
          frame_redetect = cycle.frame + scene.autotrack_rate

\* a trigger one frame before frame_redetect that ran the second cycle
C18_Witness ==
    /\ event.type = "TIMER"
    /\ event.executed
    /\ event.redetect # -1
    /\ event.frame = event.redetect - 1
    /\ cycle.number = 2

\* t has an unmuted marker at frame f or at the frame before it
UnmutedNear(t, f) ==
    \/ has_marker(t, f) /\ ~t.markers[f].mute
    \/ has_marker(t, f - 1) /\ ~t.markers[f - 1].mute

\* the last cycle reached its call of track_markers
ReachedTracker == CycleRan /\ cycle.selection_done

\* C19: when a cycle calls track_markers, the selected tracks are exactly the
\* visible, unlocked tracks outside the stop set with an unmuted marker at the
\* current or the previous frame, the new candidates that survived overlap
\* suppression among them; every selected track has frames_limit rate + 5.
C19_ContinuationSelection ==
    ReachedTracker =>
        /\ \A t \in Range(tracks) :
              /\ t.select <=> (/\ ~t.hide /\ ~t.lock
                               /\ t.id \notin cycle.to_stop
                               /\ UnmutedNear(t, cycle.frame))
              /\ t.select => t.frames_limit = scene.autotrack_rate + 5
        /\ \A id \in (cycle.new_trackers \ cycle.overlap) :
              id \in Ids(tracks) /\ TrackById(tracks, id).select

\* a cycle that selected a new candidate and left out of the selection a
\* stopped track whose marker before the muted one is unmuted
C19_Witness ==
    /\ ReachedTracker
    /\ \E t \in Range(tracks) :
          /\ t.id \in cycle.to_stop
          /\ ~t.select
          /\ UnmutedNear(t, cycle.frame)
    /\ \E t \in Range(tracks) : t.select /\ t.id \in cycle.new_trackers

\* every marker the stopped track s had is a marker of t
KeepsMarkers(t, s) ==
    \A f \in DOMAIN s.markers : has_marker(t, f) /\ t.markers[f] = s.markers[f]

\* the marker a cycle at frame f looks at, the one at f or else the one at
\* f - 1, is there and is not muted
FoundUnmuted(t, f) ==
    IF has_marker(t, f) THEN ~t.markers[f].mute
    ELSE has_marker(t, f - 1) /\ ~t.markers[f - 1].mute

\* C20 as claimed: a track that a cycle of the run put in the stop set is in
\* the dataset from then on with every marker it had when it was stopped, and
\* while no marker is added to it no cycle deletes it and none selects it for
\* a tracking job.
C20_StoppedTrackStays ==
    cycle.ran =>
        \A s \in cycle.stopped :
            /\ s.id \in Ids(tracks)
            /\ KeepsMarkers(TrackById(tracks, s.id), s)
            /\ TrackById(tracks, s.id).markers = s.markers =>
                  /\ s.id \notin cycle.to_delete
                  /\ s.id \notin cycle.selected

\* C20 as amended: a track that a cycle of the run put in the stop set is in
\* the dataset from then on with every marker it had when it was stopped and no
\* cycle deletes it; the cycle that stops it does not select it, and a later
\* cycle selects it exactly when it is visible and unlocked, that cycle does
\* not stop it again and it finds an unmuted marker of the track at its frame
\* or, with none at its frame, at the frame before.
C20_StoppedTrackSelectedOnlyWhenFound ==
    cycle.ran =>
        \A s \in cycle.stopped :
            /\ s.id \in Ids(tracks)
            /\ KeepsMarkers(TrackById(tracks, s.id), s)
            /\ s.id \notin cycle.to_delete
            /\ s.id \in cycle.to_stop => s.id \notin cycle.selected
            /\ cycle.selection_done =>
                  (s.id \in cycle.selected <=>
                      /\ s.id \notin cycle.to_stop
                      /\ ~TrackById(tracks, s.id).hide
                      /\ ~TrackById(tracks, s.id).lock
                      /\ FoundUnmuted(TrackById(tracks, s.id), cycle.frame))

\* a later cycle, run one frame past the muted marker of a track stopped
\* before, that finds an unmuted marker of the track there and selects it; no
\* marker has been added to the track
C20_Witness ==
    /\ CycleRan
    /\ cycle.number >= 2
    /\ \E s \in cycle.stopped :
          /\ s.id \notin cycle.to_stop
          /\ s.id \in cycle.selected
          /\ TrackById(tracks, s.id).markers = s.markers
          /\ TrackById(tracks, s.id).select

----------------------------------------------------------------------------
(* What a Solve-Prune run deletes, and what ESC leaves behind *)

\* the tracks of the dataset at invoke that are gone
Removed == (1..(next_id - 1)) \ Ids(tracks)

\* C22 as claimed: when a run finishes, the tracks it has removed are exactly
\* those pruned in its committed iterations, the count it reports is their
\* number, and no track that had weight 0 at invoke is removed.
C22_RemovedAreCommitted ==
    op_status = "FINISHED" =>
        /\ Removed = run.committed
        /\ Cardinality(Removed) = tracks_disabled_count
        /\ run.zero_at_start \cap Removed = {}

\* C23 as claimed: when ESC stops the Solve-Prune controller, every track of
\* weight 0 had that weight at invoke or was pruned in a committed iteration:
\* none is left at 0 by a prune step that was neither committed nor reverted.
C23_EscLeavesNoPendingPrune ==
    (outcome = "esc" /\ op_status = "CANCELLED") =>
        \A i \in DOMAIN tracks :
            tracks[i].weight = 0 =>
                tracks[i].id \in run.zero_at_start \cup run.committed

----------------------------------------------------------------------------
(* Progress of the Tracking Cycle controller *)

\* one frame of the tracking job in which the tracker loses no feature: the
\* job goes on for as long as the frames_limit of the selected tracks allows
TrackerStepSteady ==
    /\ TrackerStep
    /\ \A i \in DOMAIN tracks' :
          tracks'[i].markers # tracks[i].markers =>
              ~tracks'[i].markers[frame_current + 1].mute

\* the controller with a tracker that never loses a feature
NextTrackLive ==
    \/ AutotrackInvoke
    \/ AutotrackExecute
    \/ AutotrackEsc
    \/ AutotrackCancel
    \/ AutotrackTimer
    \/ TrackerStepSteady
    \/ ClearLog
    \/ Filter

\* the runs whose progress is followed: every dataset of InitDatasets, two
\* frames before the last frame of the clip
InitTrackLive ==
    /\ \E rate \in {1, 2}, frame_end \in FrameEnds :
          scene = [autotrack_rate |-> rate, autotrack_filter_mintime |-> 2,
                   autotrack_detect_distance |-> 5, frame_end |-> frame_end,
                   autotrack_solve_delete_failed |-> TRUE,
                   autotrack_solve_delete_count |-> 1]
    /\ frame_current = -2
    /\ tracks \in InitDatasets(frame_current)
    /\ InitOperators

\* a timer event can change the state: the operator is running and the event
\* either ends the run, or runs a cycle, or is not due and leaves another
\* record for the observers than the one they hold
TimerCanAct ==
    /\ op_status = "RUNNING"
    /\ \/ frame_current >= scene.frame_end
       \/ trigger_due(frame_redetect, frame_current)
       \/ /\ ~trigger_due(frame_redetect, frame_current)
          /\ <<outcome, event, pre_tracks, pre_log>> #
                <<"not_due", EventSeen("TIMER"), tracks, autotrack_log>>

\* weak fairness of the timer event, WF_vars(AutotrackTimer), with its
\* ENABLED written out as TimerCanAct
TimerKeepsFiring == []<>(~TimerCanAct) \/ []<><<AutotrackTimer>>_vars

\* the timer keeps firing and the tracking job keeps advancing while it can
SpecTrackLive ==
    /\ InitTrackLive
    /\ [][NextTrackLive]_vars
    /\ TimerKeepsFiring
    /\ WF_vars(TrackerStepSteady)

\* the controller is waiting after its n-th cycle, run before the end of the clip
WaitingAfterCycle(n) ==
    /\ op_status = "RUNNING"
    /\ cycle.ran
    /\ cycle.number = n
    /\ cycle.frame < scene.frame_end

\* C21 as claimed: in a run that is not cancelled and in which no handler
\* raises, after every cycle run before the end of the clip the controller
\* eventually runs another cycle or finishes, whatever the cycle selected for
\* tracking.
C21_EveryCycleIsFollowed ==
    \A n \in 1..(MaxCycles - 1) :
        WaitingAfterCycle(n) ~> (\/ cycle.number > n
                                 \/ op_status = "FINISHED"
                                 \/ op_status = "CANCELLED"
                                 \/ op_status = "ENDED"
                                 \/ op_status = "RAISED")

(***************************************************************************)
(* A longer clip, started on an empty dataset at frame 0: the tracks are   *)
(* all created by the cycle of invoke, the tracker carries them on for     *)
(* several frames and the next cycle runs wherever the timer finds it due. *)
(***************************************************************************)
\* scene.frame_end of the long clip
LongClipFrameEnds == {5}

InitLongClip ==
    /\ \E rate \in {1, 4}, frame_end \in LongClipFrameEnds :
          scene = [autotrack_rate |-> rate, autotrack_filter_mintime |-> 3,
                   autotrack_detect_distance |-> 5, frame_end |-> frame_end,
                   autotrack_solve_delete_failed |-> TRUE,
                   autotrack_solve_delete_count |-> 1]
    /\ frame_current = 0
    /\ tracks = <<>>
    /\ InitOperators

SpecLongClip == InitLongClip /\ [][NextTrack]_vars

\* the tracks the cycle before this one created and kept, which the tracker
\* has left behind since (no marker at the frame of this cycle), with fewer
\* than autotrack_filter_mintime markers, visible, unlocked and not slipping
ShortLivedNew ==
    {t \in NotSlipping(pre_tracks, cycle.frame) :
        /\ t.id \in cycle.before.created
        /\ ~has_marker(t, cycle.frame)
        /\ marker_count(t) < scene.autotrack_filter_mintime}

NextCycleFrames ==
    (cycle.before.frame + scene.autotrack_rate - 1) ..
        (cycle.before.frame + scene.autotrack_rate + 5)

\* C24: a visible, unlocked track created by detection in the cycle run at
\* frame F that stops gaining markers with fewer than
\* autotrack_filter_mintime markers, and is not slipping at the check frame, is put in the delete set
\* by the next cycle, at any frame from F + rate - 1 to F + rate + 5.
C24_ShortTrackDeletedByNextCycle ==
    (CycleRan /\ cycle.number >= 2 /\ cycle.frame \in NextCycleFrames) =>
        \A t \in ShortLivedNew : t.id \in cycle.to_delete

====
